---- MODULE Spec2Model ----
(***************************************************************************)
(* A model of src/main.py: the interactive AWS Secrets Manager fetcher.    *)
(*                                                                         *)
(* Texts that the program parses or transforms (the selection entry, the   *)
(* secret value, a file's content) are sequences of one-character strings. *)
(* Texts it only passes along (region, secret name, path) are strings.     *)
(* An optional value (Python's None or a value) is a sequence of length    *)
(* 0 or 1: None is << >>, a value v is << v >>.                            *)
(*                                                                         *)
(* Environment: standard input stays open (input() always returns), print  *)
(* and os.system always return.                                            *)
(***************************************************************************)
EXTENDS Integers, Sequences, FiniteSets, TLC

VARIABLES
    pc,            \* the stage main() is about to execute
    environ,       \* os.environ's AWS_DEFAULT_REGION: None or a string
    args_output,   \* args.output: None or a string
    os_name,       \* os.name
    fs,            \* the file system: path -> None (absent) or content
    region_name,   \* main's region_name: None or a string
    pages,         \* the pages the list_secrets paginator yielded
    secret_names,  \* main's secret_names
    secret_name,   \* main's secret_name: None or a string
    response,      \* the outcome of the remote get_secret_value call
    secret_value,  \* main's secret_value: None or a text
    stdout,        \* what print() wrote, one text per call
    calls,         \* the calls made so far, in order
    error          \* the uncaught exception that ended the run, or ""

vars == <<pc, environ, args_output, os_name, fs, region_name, pages,
          secret_names, secret_name, response, secret_value, stdout, calls,
          error>>

\* ------------------------------------------------------------------ bounds

MaxEntryLen == 2
MaxPages == 2
MaxPageLen == 2
MaxValueLen == 3

\* ----------------------------------------------------------------- helpers

None == << >>
Some(v) == << v >>

RECURSIVE SeqsUpTo(_, _)
\* All sequences over S of length at most n.
SeqsUpTo(S, n) ==
    IF n = 0 THEN {<< >>}
    ELSE LET shorter == SeqsUpTo(S, n - 1)
         IN  shorter \cup {Append(s, c) : s \in shorter, c \in S}

RECURSIVE Concat(_)
\* The concatenation of a sequence of sequences.
Concat(ss) == IF ss = << >> THEN << >> ELSE Head(ss) \o Concat(Tail(ss))

Call(fn, s1, s2, text) == [fn |-> fn, s1 |-> s1, s2 |-> s2, text |-> text]

CallsOf(fn) == SelectSeq(calls, LAMBDA c : c.fn = fn)

\* ------------------------------------------------------------ Python pieces

DigitChars == <<"0", "1", "2", "3", "4", "5", "6", "7", "8", "9">>

IsDigit(c) == \E i \in 1..Len(DigitChars) : DigitChars[i] = c

DigitValue(c) == (CHOOSE i \in 1..Len(DigitChars) : DigitChars[i] = c) - 1

RECURSIVE DecStr(_)
\* str(n) for n >= 0, one fragment per digit.
DecStr(n) ==
    IF n < 10 THEN <<DigitChars[n + 1]>>
    ELSE DecStr(n \div 10) \o <<DigitChars[(n % 10) + 1]>>

RECURSIVE LStrip(_)
LStrip(s) == IF s # << >> /\ Head(s) = " " THEN LStrip(Tail(s)) ELSE s

RECURSIVE RStrip(_)
RStrip(s) ==
    IF s # << >> /\ s[Len(s)] = " " THEN RStrip(SubSeq(s, 1, Len(s) - 1)) ELSE s

RECURSIVE DecValue(_)
\* The value of a non-empty sequence of decimal digits.
DecValue(ds) ==
    IF ds = << >> THEN 0
    ELSE 10 * DecValue(SubSeq(ds, 1, Len(ds) - 1)) + DigitValue(ds[Len(ds)])

\* int(text): surrounding whitespace is dropped, one sign is allowed, the
\* rest must be one or more decimal digits; anything else is a ValueError.
PyInt(text) ==
    LET t      == RStrip(LStrip(text))
        signed == t # << >> /\ Head(t) \in {"-", "+"}
        digits == IF signed THEN Tail(t) ELSE t
        ok     == digits # << >> /\ \A i \in 1..Len(digits) : IsDigit(digits[i])
    IN  [ok  |-> ok,
         val |-> IF ~ok THEN 0
                 ELSE IF signed /\ Head(t) = "-" THEN 0 - DecValue(digits)
                 ELSE DecValue(digits)]

\* Whether list[idx] is an element: Python accepts -len(list) <= idx < len(list).
PyIndexOk(list, idx) == 0 - Len(list) <= idx /\ idx < Len(list)

\* list[idx], a negative idx counting from the end.
PyIndex(list, idx) == IF idx >= 0 THEN list[idx + 1] ELSE list[Len(list) + idx + 1]

\* `not region_name` for an optional string: None and "" are falsy.
Falsy(opt) == opt = None \/ opt = Some("")

\* The test of line 108 inverted.
IsNotNone_Inverted(opt) == opt = None

\* `secret_value is not None`
IsNotNone(opt) == opt # None

\* ---------------------------------------------------------- list_all_secrets

\* The loop of lines 53-54 assigning the page instead of extending: only the
\* last page's names are returned.
list_all_secrets_LastPage(ps) ==
    LET secrets == IF ps = << >> THEN << >> ELSE ps[Len(ps)].SecretList
    IN  [i \in 1..Len(secrets) |-> secrets[i].Name]

\* secrets.extend(page["SecretList"]) for each page, then the Name of each.
list_all_secrets(ps) ==
    LET secrets == Concat([i \in 1..Len(ps) |-> ps[i].SecretList])
    IN  [i \in 1..Len(secrets) |-> secrets[i].Name]

\* -------------------------------------------------------------- fetch_secret

NotFoundCode == "ResourceNotFoundException"

\* fetch_secret raising again every ClientError that is not resource-not-found.
fetch_secret_Reraise(name, resp) ==
    IF resp.kind = "Response" THEN
        IF resp.hasSecretString
        THEN [ret |-> Some(resp.SecretString), out |-> << >>, raised |-> ""]
        ELSE [ret |-> None, out |-> << >>, raised |-> "KeyError"]
    ELSE IF resp.kind = "ClientError" /\ resp.code = "ResourceNotFoundException" THEN
        [ret |-> None, out |-> <<<<"ERROR: Secret '", name, "' not found.">>>>,
         raised |-> ""]
    ELSE [ret |-> None, out |-> << >>, raised |-> resp.kind]

\* What fetch_secret does with the outcome of client.get_secret_value:
\* ret is the returned value (None or a text), out the message printed,
\* raised the exception that leaves fetch_secret ("" when it returns).
fetch_secret(name, resp) ==
    IF resp.kind = "Response" THEN
        IF resp.hasSecretString
        THEN [ret |-> Some(resp.SecretString), out |-> << >>, raised |-> ""]
        ELSE [ret |-> None, out |-> << >>, raised |-> "KeyError"]
    ELSE IF resp.kind = "ClientError" THEN
        [ret |-> None,
         out |-> IF resp.code = NotFoundCode
                 THEN <<<<"ERROR: Secret '", name, "' not found.">>>>
                 ELSE <<<<"ERROR: An error occurred while fetching secret '",
                          name, "': ", resp.code>>>>,
         raised |-> ""]
    ELSE [ret |-> None, out |-> << >>, raised |-> resp.kind]

\* ------------------------------------------------------------- write_to_file

Paths == {"out.txt", "nodir/out.txt", ""}

\* The paths open(path, "w") can create or truncate in this environment: the
\* empty path never is one, and the directory nodir does not exist.
CreatablePaths == {"out.txt"}

\* os.linesep
LineSep(os) == IF os = "nt" THEN <<"\r", "\n">> ELSE <<"\n">>

\* What a text-mode file opened without a newline argument stores for the
\* text written to it: every "\n" becomes os.linesep.
TextModeWrite(text, os) ==
    Concat([i \in 1..Len(text) |->
               IF text[i] = "\n" THEN LineSep(os) ELSE <<text[i]>>])

\* open(output_file, "w", encoding="utf-8") and file.write(secret_value):
\* the file system afterwards, and the exception raised ("" when none).
write_to_file(value, path, files, os) ==
    IF path \in CreatablePaths
    THEN [files  |-> [files EXCEPT ![path] = Some(TextModeWrite(value, os))],
          raised |-> ""]
    ELSE [files |-> files, raised |-> "OSError"]

\* --------------------------------------------------------------- clear_screen

\* The command clear_screen hands to os.system.
ClearCommand(os) == IF os = "nt" THEN "cls" ELSE "clear"

\* ------------------------------------------------------------ json.loads

\* The characters of the modelled secret values. Within this alphabet a JSON
\* text is an object, an array, a string or an unsigned integer; strings hold
\* no escapes (there is no backslash).
JsonChars == {"{", "}", "[", "]", ":", ",", "\"", "k", "0", "1", " "}

IsWs(c) == c \in {" ", "\t", "\n", "\r"}

IsControl(c) == c \in {"\t", "\n", "\r"}

NoValue == [t |-> "none", s |-> << >>, items |-> << >>]

Failed == [ok |-> FALSE, val |-> NoValue, end |-> 0]

Parsed(v, e) == [ok |-> TRUE, val |-> v, end |-> e]

RECURSIVE SkipWs(_, _)
\* The first position from i on that holds no whitespace (Len(s) + 1 if none).
SkipWs(s, i) == IF i <= Len(s) /\ IsWs(s[i]) THEN SkipWs(s, i + 1) ELSE i

RECURSIVE StringEnd(_, _)
\* The position of the quote closing the string whose content starts at i;
\* 0 when the text ends or a control character comes first.
StringEnd(s, i) ==
    IF i > Len(s) \/ IsControl(s[i]) THEN 0
    ELSE IF s[i] = "\"" THEN i
    ELSE StringEnd(s, i + 1)

\* scanstring: the string whose content starts at i, after the opening quote.
ScanString(s, i) ==
    LET e == StringEnd(s, i)
    IN  IF e = 0 THEN Failed
        ELSE Parsed([t |-> "str", s |-> SubSeq(s, i, e - 1), items |-> << >>],
                    e + 1)

RECURSIVE DigitsEnd(_, _)
\* The first position from i on that holds no digit.
DigitsEnd(s, i) == IF i <= Len(s) /\ IsDigit(s[i]) THEN DigitsEnd(s, i + 1) ELSE i

\* NUMBER_RE at a digit: "0" alone, or a run of digits not starting with "0".
ScanNumber(s, i) ==
    LET e == IF s[i] = "0" THEN i + 1 ELSE DigitsEnd(s, i)
    IN  Parsed([t |-> "int", s |-> SubSeq(s, i, e - 1), items |-> << >>], e)

RECURSIVE DictPut(_, _, _)
\* dict(pairs), one pair at a time: a key seen before keeps its place and
\* takes the new value.
DictPut(pairs, key, val) ==
    IF pairs = << >> THEN <<[key |-> key, val |-> val]>>
    ELSE IF Head(pairs).key = key
         THEN <<[key |-> key, val |-> val]>> \o Tail(pairs)
         ELSE <<Head(pairs)>> \o DictPut(Tail(pairs), key, val)

RECURSIVE ParseValue(_, _)
RECURSIVE ArrayItems(_, _, _)
RECURSIVE ObjectPairs(_, _, _)

\* JSONArray, from the position after "[".
ParseArray(s, i) ==
    LET j == SkipWs(s, i)
    IN  IF j <= Len(s) /\ s[j] = "]"
        THEN Parsed([t |-> "arr", s |-> << >>, items |-> << >>], j + 1)
        ELSE ArrayItems(s, j, << >>)

\* JSONObject, from the position after "{".
ParseObject(s, i) ==
    LET j == SkipWs(s, i)
    IN  IF j <= Len(s) /\ s[j] = "}"
        THEN Parsed([t |-> "obj", s |-> << >>, items |-> << >>], j + 1)
        ELSE IF j <= Len(s) /\ s[j] = "\"" THEN ObjectPairs(s, j + 1, << >>)
        ELSE Failed

\* scan_once at position i.
ParseValue(s, i) ==
    IF i > Len(s) THEN Failed
    ELSE IF s[i] = "\"" THEN ScanString(s, i + 1)
    ELSE IF s[i] = "{" THEN ParseObject(s, i + 1)
    ELSE IF s[i] = "[" THEN ParseArray(s, i + 1)
    ELSE IF IsDigit(s[i]) THEN ScanNumber(s, i)
    ELSE Failed

\* The loop of JSONArray: a value, then "]" or ",".
ArrayItems(s, i, acc) ==
    LET r == ParseValue(s, i)
        j == SkipWs(s, r.end)
    IN  IF ~r.ok \/ j > Len(s) THEN Failed
        ELSE IF s[j] = "]"
             THEN Parsed([t |-> "arr", s |-> << >>, items |-> Append(acc, r.val)],
                         j + 1)
        ELSE IF s[j] = ","
             THEN ArrayItems(s, SkipWs(s, j + 1), Append(acc, r.val))
        ELSE Failed

\* The loop of JSONObject, from the position after a key's opening quote:
\* the key, ":", a value, then "}" or "," and the next key's quote.
ObjectPairs(s, i, acc) ==
    LET k  == ScanString(s, i)
        c  == SkipWs(s, k.end)
        v  == ParseValue(s, SkipWs(s, c + 1))
        j  == SkipWs(s, v.end)
        n  == SkipWs(s, j + 1)
        kv == DictPut(acc, k.val.s, v.val)
    IN  IF ~k.ok \/ c > Len(s) \/ s[c] # ":" THEN Failed
        ELSE IF ~v.ok \/ j > Len(s) THEN Failed
        ELSE IF s[j] = "}"
             THEN Parsed([t |-> "obj", s |-> << >>, items |-> kv], j + 1)
        ELSE IF s[j] = "," /\ n <= Len(s) /\ s[n] = "\""
             THEN ObjectPairs(s, n + 1, kv)
        ELSE Failed

\* json.loads(text): ok is FALSE where it raises JSONDecodeError.
json_loads(text) ==
    LET r == ParseValue(text, SkipWs(text, 1))
    IN  IF r.ok /\ SkipWs(text, r.end) = Len(text) + 1 THEN r ELSE Failed

\* ------------------------------------------------------------ json.dumps

Indent == 4

RECURSIVE Spaces(_)
Spaces(n) == IF n = 0 THEN << >> ELSE <<" ">> \o Spaces(n - 1)

\* "\n" and the indentation of nesting level `level`.
NewlineIndent(level) == <<"\n">> \o Spaces(Indent * level)

RECURSIVE Encode(_, _)
RECURSIVE EncodeItems(_, _, _)

\* One element of a list (isObj false) or one '"key": value' of a dict, each
\* after the first preceded by "," and the newline indentation.
EncodeItems(items, isObj, level) ==
    Concat([i \in 1..Len(items) |->
        (IF i = 1 THEN << >> ELSE <<",">> \o NewlineIndent(level))
        \o (IF isObj
            THEN <<"\"">> \o items[i].key \o <<"\"", ":", " ">>
                 \o Encode(items[i].val, level)
            ELSE Encode(items[i], level))])

\* _iterencode at nesting level `level`.
Encode(v, level) ==
    IF v.t = "int" THEN v.s
    ELSE IF v.t = "str" THEN <<"\"">> \o v.s \o <<"\"">>
    ELSE LET open  == IF v.t = "obj" THEN "{" ELSE "["
             close == IF v.t = "obj" THEN "}" ELSE "]"
         IN  IF v.items = << >> THEN <<open, close>>
             ELSE <<open>> \o NewlineIndent(level + 1)
                  \o EncodeItems(v.items, v.t = "obj", level + 1)
                  \o NewlineIndent(level) \o <<close>>

\* json.dumps(value, indent=4)
json_dumps(v) == Encode(v, 0)

\* Lines 113-120: what display mode prints for a value, header first.
HeaderText == <<"\n", "Fetched Secret Value:">>

\* Lines 113-120 without the json round trip.
DisplayText_Raw(value) == value

DisplayText(value) ==
    LET r == json_loads(value)
    IN  IF r.ok THEN json_dumps(r.val) ELSE value


\* ------------------------------------------------------ the remote service

Names == {"alpha", "beta"}

Regions == {"", "eu-west-1", "us-west-2"}

\* One entry of a page's SecretList.
Entry(n) == [Name |-> n]

Page(ns) == [SecretList |-> [i \in 1..Len(ns) |-> Entry(ns[i])]]

\* The outcome of paginate(): the pages, or the exception it raises.
Listed(ps) == [raised |-> "", pages |-> ps]

ListRaises(e) == [raised |-> e, pages |-> << >>]

\* The outcomes of client.get_secret_value.
Response(v) ==
    [kind |-> "Response", hasSecretString |-> TRUE, SecretString |-> v, code |-> ""]

\* A secret held in binary form: the response has no SecretString key.
BinaryResponse ==
    [kind |-> "Response", hasSecretString |-> FALSE, SecretString |-> << >>, code |-> ""]

\* botocore.exceptions.ClientError: the service answered with an error code.
ClientError(code) ==
    [kind |-> "ClientError", hasSecretString |-> FALSE, SecretString |-> << >>,
     code |-> code]

\* An exception that is no ClientError (no answer from the service).
OtherError(kind) ==
    [kind |-> kind, hasSecretString |-> FALSE, SecretString |-> << >>, code |-> ""]

NoResponse == OtherError("")

Failures ==
    {BinaryResponse, ClientError(NotFoundCode), ClientError("AccessDeniedException"),
     OtherError("EndpointConnectionError")}

\* ------------------------------------------------------------------- main

\* The test of line 109 as `is not None`.
OutputGiven_NotNone(opt) == opt # None

\* `if args.output:` an absent flag and an empty path are falsy.
OutputGiven(opt) == opt # None /\ opt # Some("")

\* The test of line 95 as `is None`: an empty value is taken as a region.
ResolvedRegion_OnlyNone(env, entered) == IF env = None THEN Some(entered) ELSE env

\* Lines 93-96: the region main uses, given what the prompt would return.
ResolvedRegion(env, entered) == IF Falsy(env) THEN Some(entered) ELSE env

\* Lines 99-101: the menu.
Menu(names) ==
    <<<<"Available Secrets:">>>>
    \o [i \in 1..Len(names) |-> DecStr(i) \o <<". ", names[i]>>]

RegionPrompt == "Enter the Region Name: "

SelectPrompt == "Enter the number of the secret you want to fetch: "

AckPrompt == "\nPress Enter to clear the screen..."

Crash(e) == pc' = "Crashed" /\ error' = e

\* Lines 93-96.
ResolveRegion(entries) ==
    /\ pc = "ResolveRegion"
    /\ \E e \in entries :
          /\ region_name' = ResolvedRegion(environ, e)
          /\ calls' = IF Falsy(environ)
                      THEN Append(calls, Call("input", RegionPrompt, e, << >>))
                      ELSE calls
    /\ pc' = "ListSecrets"
    /\ UNCHANGED <<environ, args_output, os_name, fs, pages, secret_names,
                   secret_name, response, secret_value, stdout, error>>

\* Lines 98-101.
ListSecrets(outcomes) ==
    /\ pc = "ListSecrets"
    /\ calls' = Append(calls, Call("list_all_secrets", region_name[1], "", << >>))
    /\ \E o \in outcomes :
          IF o.raised # ""
          THEN /\ Crash(o.raised)
               /\ UNCHANGED <<pages, secret_names, stdout>>
          ELSE /\ pages' = o.pages
               /\ secret_names' = list_all_secrets(o.pages)
               /\ stdout' = stdout \o Menu(list_all_secrets(o.pages))
               /\ pc' = "SelectSecret"
               /\ UNCHANGED error
    /\ UNCHANGED <<environ, args_output, os_name, fs, region_name, secret_name,
                   response, secret_value>>

\* Lines 103-104.
SelectSecret(entries) ==
    /\ pc = "SelectSecret"
    /\ \E e \in entries :
          LET n   == PyInt(e)
              idx == n.val - 1
          IN  /\ calls' = Append(calls, Call("input", SelectPrompt, "", e))
              /\ IF ~n.ok
                 THEN Crash("ValueError") /\ UNCHANGED secret_name
                 ELSE IF ~PyIndexOk(secret_names, idx)
                 THEN Crash("IndexError") /\ UNCHANGED secret_name
                 ELSE /\ secret_name' = Some(PyIndex(secret_names, idx))
                      /\ pc' = "FetchSecret"
                      /\ UNCHANGED error
    /\ UNCHANGED <<environ, args_output, os_name, fs, region_name, pages,
                   secret_names, response, secret_value, stdout>>

\* Lines 106-108 and 124.
FetchSecret(responses) ==
    /\ pc = "FetchSecret"
    /\ calls' = Append(calls,
                       Call("fetch_secret", secret_name[1], region_name[1], << >>))
    /\ \E resp \in responses :
          LET r == fetch_secret(secret_name[1], resp)
          IN  /\ response' = resp
              /\ stdout' = stdout \o r.out
              /\ IF r.raised # ""
                 THEN Crash(r.raised) /\ UNCHANGED secret_value
                 ELSE /\ secret_value' = r.ret
                      /\ pc' = IF IsNotNone(r.ret) THEN "Deliver" ELSE "Exit"
                      /\ UNCHANGED error
    /\ UNCHANGED <<environ, args_output, os_name, fs, region_name, pages,
                   secret_names, secret_name>>

\* Lines 109-111.
WriteOutput ==
    /\ pc = "Deliver"
    /\ OutputGiven(args_output)
    /\ LET path == args_output[1]
           w    == write_to_file(secret_value[1], path, fs, os_name)
       IN  /\ calls' = Append(calls, Call("write_to_file", path, "", secret_value[1]))
           /\ fs' = w.files
           /\ IF w.raised # ""
              THEN Crash(w.raised) /\ UNCHANGED stdout
              ELSE /\ stdout' = Append(stdout,
                        <<"Secret value fetched and stored in ", path,
                          " successfully.">>)
                   /\ pc' = "Done"
                   /\ UNCHANGED error
    /\ UNCHANGED <<environ, args_output, os_name, region_name, pages,
                   secret_names, secret_name, response, secret_value>>

\* Lines 112-120.
DisplaySecret ==
    /\ pc = "Deliver"
    /\ ~OutputGiven(args_output)
    /\ stdout' = stdout \o <<HeaderText, DisplayText(secret_value[1])>>
    /\ pc' = "Acknowledge"
    /\ UNCHANGED <<environ, args_output, os_name, fs, region_name, pages,
                   secret_names, secret_name, response, secret_value, calls,
                   error>>

\* Line 122.
Acknowledge(entries) ==
    /\ pc = "Acknowledge"
    /\ \E e \in entries : calls' = Append(calls, Call("input", AckPrompt, "", e))
    /\ pc' = "ClearScreen"
    /\ UNCHANGED <<environ, args_output, os_name, fs, region_name, pages,
                   secret_names, secret_name, response, secret_value, stdout,
                   error>>

\* Lines 123 and 60-67.
ClearScreen ==
    /\ pc = "ClearScreen"
    /\ calls' = calls \o <<Call("clear_screen", "", "", << >>),
                           Call("os.system", ClearCommand(os_name), "", << >>)>>
    /\ pc' = "Done"
    /\ UNCHANGED <<environ, args_output, os_name, fs, region_name, pages,
                   secret_names, secret_name, response, secret_value, stdout,
                   error>>

\* Line 125 followed by another selection instead of the end of the run.
ExitProgram_Retry ==
    /\ pc = "Exit"
    /\ stdout' = Append(stdout, <<"Exiting program.">>)
    /\ pc' = "SelectSecret"
    /\ UNCHANGED <<environ, args_output, os_name, fs, region_name, pages,
                   secret_names, secret_name, response, secret_value, calls,
                   error>>

\* Line 125.
ExitProgram ==
    /\ pc = "Exit"
    /\ stdout' = Append(stdout, <<"Exiting program.">>)
    /\ pc' = "Done"
    /\ UNCHANGED <<environ, args_output, os_name, fs, region_name, pages,
                   secret_names, secret_name, response, secret_value, calls,
                   error>>

\* ------------------------------------------------- the inputs of a run

OldContent == <<"o", "l", "d">>

NoFiles == [p \in Paths |-> None]

\* The file systems a run may start with: out.txt absent, or holding old content.
InitialFiles == {NoFiles, [NoFiles EXCEPT !["out.txt"] = Some(OldContent)]}

\* What the operator may type at the region prompt.
RegionEntries == {"", "us-west-2"}

\* What the operator may type at the selection prompt.
EntryChars == {"0", "1", "2", "-", " ", "x"}

SelectEntries == SeqsUpTo(EntryChars, MaxEntryLen)

AckEntries == {<< >>, <<"x">>}

\* What the paginator may yield in a run of main.
SamplePages ==
    {<< >>,
     <<Page(<< >>)>>,
     <<Page(<<"alpha">>)>>,
     <<Page(<<"alpha", "beta">>)>>,
     <<Page(<<"beta">>), Page(<< >>), Page(<<"alpha">>)>>}

ListOutcomes == {Listed(ps) : ps \in SamplePages} \cup {ListRaises("ClientError")}

\* Secret values a run of main may fetch.
SampleValues ==
    {<< >>,
     <<"p", "l", "a", "i", "n">>,
     <<"{", "\"", "k", "\"", ":", "\"", "v", "\"", "}">>,
     <<"[", "1", ",", "]">>,
     <<"{", "\"", "k", "\"", ":", "[", "1", ",", " ", "{", "}", "]", ",",
       "\"", "k", "\"", ":", "[", "0", "]", "}">>}

FetchOutcomes == {Response(v) : v \in SampleValues} \cup Failures

Init ==
    /\ pc = "ResolveRegion"
    /\ environ \in {None, Some(""), Some("eu-west-1")}
    /\ args_output \in {None} \cup {Some(p) : p \in Paths}
    /\ os_name \in {"posix", "nt"}
    /\ fs \in InitialFiles
    /\ region_name = None
    /\ pages = << >>
    /\ secret_names = << >>
    /\ secret_name = None
    /\ response = NoResponse
    /\ secret_value = None
    /\ stdout = << >>
    /\ calls = << >>
    /\ error = ""

Next ==
    \/ ResolveRegion(RegionEntries)
    \/ ListSecrets(ListOutcomes)
    \/ SelectSecret(SelectEntries)
    \/ FetchSecret(FetchOutcomes)
    \/ WriteOutput
    \/ DisplaySecret
    \/ Acknowledge(AckEntries)
    \/ ClearScreen
    \/ ExitProgram

Spec == Init /\ [][Next]_vars


\* ------------------------------------------- the functions called directly
\* As src/test_main.py calls them: one call, with the arguments and the
\* remote service's state drawn from bounded sets.

\* Every run of pages of at most MaxPages pages of at most MaxPageLen entries.
AllPages == SeqsUpTo({Page(ns) : ns \in SeqsUpTo(Names, MaxPageLen)}, MaxPages)

\* Every secret value of at most MaxValueLen characters, and the samples.
AllValues == SeqsUpTo(JsonChars, MaxValueLen) \cup SampleValues

\* Values with line breaks, for write_to_file.
WriteChars == {"a", "\n", "\r"}

WriteValues == SeqsUpTo(WriteChars, MaxValueLen)

InitList ==
    /\ pc = "list_all_secrets"
    /\ pages \in AllPages
    /\ region_name = Some("us-west-2")
    /\ environ = None /\ args_output = None /\ os_name = "posix" /\ fs = NoFiles
    /\ secret_names = << >> /\ secret_name = None /\ response = NoResponse
    /\ secret_value = None /\ stdout = << >> /\ calls = << >> /\ error = ""

\* listed_secrets = list_all_secrets(region_name)
CallList ==
    /\ pc = "list_all_secrets"
    /\ calls' = Append(calls, Call("list_all_secrets", region_name[1], "", << >>))
    /\ secret_names' = list_all_secrets(pages)
    /\ pc' = "Returned"
    /\ UNCHANGED <<environ, args_output, os_name, fs, region_name, pages,
                   secret_name, response, secret_value, stdout, error>>

SpecList == InitList /\ [][CallList]_vars

InitFetch ==
    /\ pc = "fetch_secret"
    /\ secret_name \in {Some(n) : n \in Names}
    /\ region_name \in {Some(r) : r \in Regions \ {""}}
    /\ response \in {Response(v) : v \in AllValues} \cup Failures
    /\ environ = None /\ args_output = None /\ os_name = "posix" /\ fs = NoFiles
    /\ pages = << >> /\ secret_names = << >>
    /\ secret_value = None /\ stdout = << >> /\ calls = << >> /\ error = ""

\* fetched_secret = fetch_secret(secret_name, region_name)
CallFetch ==
    /\ pc = "fetch_secret"
    /\ calls' = Append(calls,
                       Call("fetch_secret", secret_name[1], region_name[1], << >>))
    /\ LET r == fetch_secret(secret_name[1], response)
       IN  /\ stdout' = stdout \o r.out
           /\ secret_value' = r.ret
           /\ error' = r.raised
           /\ pc' = IF r.raised # "" THEN "Raised" ELSE "Returned"
    /\ UNCHANGED <<environ, args_output, os_name, fs, region_name, pages,
                   secret_names, secret_name, response>>

SpecFetch == InitFetch /\ [][CallFetch]_vars

InitWrite ==
    /\ pc = "write_to_file"
    /\ secret_value \in {Some(v) : v \in WriteValues}
    /\ args_output \in {Some(p) : p \in Paths}
    /\ os_name \in {"posix", "nt"}
    /\ fs \in InitialFiles
    /\ environ = None /\ region_name = None /\ pages = << >>
    /\ secret_names = << >> /\ secret_name = None /\ response = NoResponse
    /\ stdout = << >> /\ calls = << >> /\ error = ""

\* write_to_file(secret_value, output_file)
CallWrite ==
    /\ pc = "write_to_file"
    /\ LET w == write_to_file(secret_value[1], args_output[1], fs, os_name)
       IN  /\ calls' = Append(calls,
                  Call("write_to_file", args_output[1], "", secret_value[1]))
           /\ fs' = w.files
           /\ error' = w.raised
           /\ pc' = IF w.raised # "" THEN "Raised" ELSE "Returned"
    /\ UNCHANGED <<environ, args_output, os_name, region_name, pages,
                   secret_names, secret_name, response, secret_value, stdout>>

SpecWrite == InitWrite /\ [][CallWrite]_vars

\* main() as test_main runs it: no region in the environment, the operator
\* enters "us-west-2" and "1", list_all_secrets returns ["test_secret"] and
\* fetch_secret returns the value; here every value of AllValues.
InitDisplay ==
    /\ pc = "ResolveRegion"
    /\ environ = None
    /\ args_output \in {None, Some("")}
    /\ os_name \in {"posix", "nt"}
    /\ fs = NoFiles
    /\ region_name = None /\ pages = << >> /\ secret_names = << >>
    /\ secret_name = None /\ response = NoResponse /\ secret_value = None
    /\ stdout = << >> /\ calls = << >> /\ error = ""

NextDisplay ==
    \/ ResolveRegion({"us-west-2"})
    \/ ListSecrets({Listed(<<Page(<<"test_secret">>)>>)})
    \/ SelectSecret({<<"1">>})
    \/ FetchSecret({Response(v) : v \in AllValues})
    \/ DisplaySecret
    \/ Acknowledge({<< >>})
    \/ ClearScreen

SpecDisplay == InitDisplay /\ [][NextDisplay]_vars


\* ================================================================ claims

\* What a state shows of the run so far.
RegionPrompts == SelectSeq(calls, LAMBDA c : c.fn = "input" /\ c.s1 = RegionPrompt)

SelectPrompts == SelectSeq(calls, LAMBDA c : c.fn = "input" /\ c.s1 = SelectPrompt)

AckPrompts == SelectSeq(calls, LAMBDA c : c.fn = "input" /\ c.s1 = AckPrompt)

\* list_all_secrets returned: the menu's first line is on the terminal.
ListReturned == stdout # << >> /\ stdout[1] = <<"Available Secrets:">>

\* fetch_secret returned None to main.
FetchReturnedNone ==
    Len(CallsOf("fetch_secret")) = 1 /\ pc # "Crashed" /\ secret_value = None

\* fetch_secret returned a value to main.
FetchSucceeded == secret_value # None

HeaderPrinted == \E i \in 1..Len(stdout) : stdout[i] = HeaderText

Confirmation(path) ==
    <<"Secret value fetched and stored in ", path, " successfully.">>

\* The output sink was not invoked and nothing of it shows.
NoDelivery ==
    /\ CallsOf("write_to_file") = << >>
    /\ fs \in InitialFiles
    /\ ~HeaderPrinted
    /\ AckPrompts = << >>
    /\ CallsOf("clear_screen") = << >>
    /\ CallsOf("os.system") = << >>

\* C1: whenever fetch_secret returns None, main prints "Exiting program." and
\* ends normally; write_to_file is never called, no file is created, neither
\* the header nor a value is printed and clear_screen is never called, in
\* write mode and in display mode alike.
C1_FetchFailureExits ==
    FetchReturnedNone =>
        /\ pc \in {"Exit", "Done"}
        /\ error = ""
        /\ NoDelivery
        /\ pc = "Exit" => ENABLED ExitProgram
        /\ pc = "Done" => stdout[Len(stdout)] = <<"Exiting program.">>

C1_Witness ==
    /\ FetchReturnedNone
    /\ pc = "Done"
    /\ args_output = Some("out.txt")
    /\ response = ClientError(NotFoundCode)


\* C3: when list_all_secrets returns an empty list, whatever is entered at the
\* selection prompt the run does not end with an uncaught IndexError, and
\* neither fetch_secret nor the output sink is invoked.
C3_EmptyListGraceful ==
    (ListReturned /\ secret_names = << >>) =>
        /\ error # "IndexError"
        /\ CallsOf("fetch_secret") = << >>
        /\ NoDelivery

\* C4: an entry that is an integer k with 1 <= k <= n fetches exactly the k-th
\* listed name; any other entry (non-numeric, 0, negative, above n) ends the
\* run with an uncaught error and fetch_secret is never invoked.
C4_SelectionByMenuIndex ==
    SelectPrompts # << >> =>
        LET n == PyInt(SelectPrompts[1].text)
            k == n.val
        IN  IF n.ok /\ 1 <= k /\ k <= Len(secret_names)
            THEN /\ secret_name = Some(secret_names[k])
                 /\ \A i \in 1..Len(calls) :
                       calls[i].fn = "fetch_secret" => calls[i].s1 = secret_names[k]
                 /\ error \notin {"ValueError", "IndexError"}
            ELSE /\ pc = "Crashed"
                 /\ error \in {"ValueError", "IndexError"}
                 /\ CallsOf("fetch_secret") = << >>

EnvSet == environ # None /\ environ # Some("")

C5_Resolution ==
    /\ EnvSet => RegionPrompts = << >>
    /\ pc = "ResolveRegion" => RegionPrompts = << >>
    /\ (EnvSet /\ pc # "ResolveRegion") => region_name = environ
    /\ (~EnvSet /\ pc # "ResolveRegion") =>
          /\ Len(RegionPrompts) = 1
          /\ region_name = Some(RegionPrompts[1].s2)
    /\ \A i \in 1..Len(calls) :
          /\ calls[i].fn = "list_all_secrets" => Some(calls[i].s1) = region_name
          /\ calls[i].fn = "fetch_secret" => Some(calls[i].s2) = region_name

\* C5: a non-empty AWS_DEFAULT_REGION is used verbatim and the region prompt
\* is never issued; an unset or empty one issues the prompt exactly once and
\* the entry, empty or not, is used verbatim. list_all_secrets and
\* fetch_secret get that same region, which never changes once resolved.
C5_RegionResolution ==
    /\ []C5_Resolution
    /\ [][pc # "ResolveRegion" => region_name' = region_name]_vars

C5_Witness ==
    /\ environ = Some("")
    /\ Len(RegionPrompts) = 1
    /\ region_name = Some("us-west-2")
    /\ \E i \in 1..Len(calls) :
          calls[i] = Call("fetch_secret", "beta", "us-west-2", << >>)
    /\ \E i \in 1..Len(calls) :
          calls[i] = Call("list_all_secrets", "us-west-2", "", << >>)

\* The last two texts on the terminal are the header and `text`.
Displayed(text) ==
    /\ Len(stdout) >= 2
    /\ stdout[Len(stdout) - 1] = HeaderText
    /\ stdout[Len(stdout)] = text

\* C7 as stated: the mode is selected by the presence of --output alone. With
\* the flag present, whatever its value, the fetched value is written to that
\* path, the confirmation is printed, nothing is displayed and the screen is
\* never cleared; with the flag absent the value is displayed and no file is
\* written.
C7_ModeByFlagPresence ==
    IF args_output # None
    THEN /\ ~HeaderPrinted
         /\ CallsOf("clear_screen") = << >>
         /\ (FetchSucceeded /\ pc \in {"Done", "Crashed"}) =>
               /\ fs[args_output[1]] # None
               /\ stdout[Len(stdout)] = Confirmation(args_output[1])
    ELSE /\ CallsOf("write_to_file") = << >>
         /\ fs \in InitialFiles
         /\ (FetchSucceeded /\ pc = "Done") => HeaderPrinted

\* C7 amended: the mode is selected by whether --output has a non-empty
\* value. With a non-empty path write_to_file(value, path) is called once,
\* nothing is displayed and the screen is never cleared; a path that can be
\* created then holds what write_to_file stored and the confirmation naming it
\* is printed, one that cannot ends the run with the uncaught OSError. With the
\* flag absent or empty the value is displayed and no file is written.
C7_ModeByNonEmptyFlag ==
    IF args_output # None /\ args_output # Some("")
    THEN /\ ~HeaderPrinted
         /\ AckPrompts = << >>
         /\ CallsOf("clear_screen") = << >>
         /\ (FetchSucceeded /\ pc \in {"Done", "Crashed"}) =>
               /\ CallsOf("write_to_file")
                     = <<Call("write_to_file", args_output[1], "", secret_value[1])>>
               /\ IF args_output[1] \in CreatablePaths
                  THEN /\ pc = "Done"
                       /\ fs[args_output[1]]
                             = Some(TextModeWrite(secret_value[1], os_name))
                       /\ stdout[Len(stdout)] = Confirmation(args_output[1])
                  ELSE /\ pc = "Crashed"
                       /\ error = "OSError"
                       /\ fs \in InitialFiles
                       /\ \A i \in 1..Len(stdout) :
                             stdout[i] # Confirmation(args_output[1])
    ELSE /\ CallsOf("write_to_file") = << >>
         /\ fs \in InitialFiles
         /\ FetchSucceeded => pc # "Crashed"
         /\ (FetchSucceeded /\ pc = "Done") =>
               /\ HeaderPrinted
               /\ Len(CallsOf("clear_screen")) = 1

C7_Witness ==
    /\ pc = "Done"
    /\ args_output = Some("out.txt")
    /\ secret_value = Some(<<"p", "l", "a", "i", "n">>)
    /\ fs["out.txt"] = secret_value
    /\ stdout[Len(stdout)] = Confirmation("out.txt")

\* The stage transitions of main.
StageEdges ==
    {<<"ResolveRegion", "ListSecrets">>, <<"ListSecrets", "SelectSecret">>,
     <<"SelectSecret", "FetchSecret">>, <<"FetchSecret", "Deliver">>,
     <<"FetchSecret", "Exit">>, <<"Exit", "Done">>,
     <<"Deliver", "Done">>, <<"Deliver", "Acknowledge">>,
     <<"Acknowledge", "ClearScreen">>, <<"ClearScreen", "Done">>,
     <<"ListSecrets", "Crashed">>, <<"SelectSecret", "Crashed">>,
     <<"FetchSecret", "Crashed">>, <<"Deliver", "Crashed">>}

StageStep == <<pc, pc'>> \in StageEdges

\* The place of a call in a run.
Rank(c) ==
    IF c.fn = "input" /\ c.s1 = RegionPrompt THEN 1
    ELSE IF c.fn = "list_all_secrets" THEN 2
    ELSE IF c.fn = "input" /\ c.s1 = SelectPrompt THEN 3
    ELSE IF c.fn = "fetch_secret" THEN 4
    ELSE IF c.fn = "write_to_file" THEN 5
    ELSE IF c.fn = "input" /\ c.s1 = AckPrompt THEN 5
    ELSE IF c.fn = "clear_screen" THEN 6
    ELSE 7

C10_Order ==
    /\ \A i, j \in 1..Len(calls) : i < j => Rank(calls[i]) < Rank(calls[j])
    /\ SelectPrompts # << >> => (ListReturned /\ CallsOf("list_all_secrets") # << >>)
    /\ CallsOf("fetch_secret") # << >> =>
          (SelectPrompts # << >> /\ secret_name # None)
    /\ (\E i \in 1..Len(calls) : Rank(calls[i]) >= 5) \/ HeaderPrinted
          => (FetchSucceeded /\ CallsOf("fetch_secret") # << >>)
    /\ CallsOf("os.system") # << >> =>
          /\ pc = "Done"
          /\ Len(calls) >= 3
          /\ calls[Len(calls)].fn = "os.system"
          /\ calls[Len(calls) - 1].fn = "clear_screen"
          /\ calls[Len(calls) - 2] \in {Call("input", AckPrompt, "", e) : e \in AckEntries}
    /\ pc = "Crashed" <=> error # ""

\* C10: a run moves only forward through ResolveRegion, ListSecrets,
\* SelectSecret, FetchSecret and Deliver, leaving them otherwise only by
\* the failed fetch's edge to Exit or by an uncaught error. The list request
\* and the fetch request are issued at most once each, the list before the
\* menu and the selection prompt, the fetch after the selection, delivery
\* only after a successful fetch; in display mode the acknowledgment comes
\* before the screen clear, which is the run's last action.
C10_ForwardOnly ==
    /\ []C10_Order
    /\ [][StageStep]_vars

C10_Witness ==
    /\ pc = "Done"
    /\ Len(calls) = 7
    /\ calls[1].fn = "input" /\ calls[2].fn = "list_all_secrets"
    /\ calls[3].fn = "input" /\ calls[4].fn = "fetch_secret"
    /\ calls[5].fn = "input" /\ calls[6].fn = "clear_screen"
    /\ calls[7].fn = "os.system"


RECURSIVE EntriesBefore(_)
\* The number of entries on the pages before page p.
EntriesBefore(p) ==
    IF p = 1 THEN 0 ELSE EntriesBefore(p - 1) + Len(pages[p - 1].SecretList)

\* C6: list_all_secrets returns the Name of every entry of every page, in page
\* order and in entry order within a page: nothing dropped, added, merged or
\* reordered, and no names at all for zero pages or empty pages.
C6_ListingExhaustive ==
    pc = "Returned" =>
        /\ Len(secret_names) = EntriesBefore(Len(pages) + 1)
        /\ \A p \in 1..Len(pages) :
              \A i \in 1..Len(pages[p].SecretList) :
                 secret_names[EntriesBefore(p) + i] = pages[p].SecretList[i].Name

C6_Witness ==
    /\ pc = "Returned"
    /\ pages = <<Page(<<"beta", "alpha">>), Page(<<"alpha">>)>>
    /\ secret_names = <<"beta", "alpha", "alpha">>

\* C2 as stated: fetch_secret returns the SecretString of a successful call
\* unchanged, and for every failure of the call, resource-not-found or any
\* other, it prints a message and returns None instead of raising.
C2_EveryFailureReturnsNone ==
    pc \in {"Returned", "Raised"} =>
        /\ (response.kind = "Response" /\ response.hasSecretString) =>
              (pc = "Returned" /\ secret_value = Some(response.SecretString))
        /\ response.kind # "Response" =>
              (pc = "Returned" /\ secret_value = None /\ Len(stdout) = 1)

\* C2 amended: fetch_secret returns the SecretString of a successful call
\* unchanged and prints nothing; for every ClientError of the call,
\* resource-not-found or any other code, it prints one message naming the
\* secret (a different one for resource-not-found) and returns None; any
\* other exception of the call, and the KeyError of a response without
\* SecretString, leaves fetch_secret uncaught with nothing printed.
C2_ClientErrorsReturnNone ==
    pc \in {"Returned", "Raised"} =>
        IF response.kind = "Response" /\ response.hasSecretString
        THEN /\ pc = "Returned"
             /\ secret_value = Some(response.SecretString)
             /\ stdout = << >>
        ELSE IF response.kind = "ClientError"
        THEN /\ pc = "Returned"
             /\ secret_value = None
             /\ error = ""
             /\ Len(stdout) = 1
             /\ stdout[1][2] = secret_name[1]
             /\ (stdout[1] = <<"ERROR: Secret '", secret_name[1], "' not found.">>)
                   <=> response.code = "ResourceNotFoundException"
        ELSE /\ pc = "Raised"
             /\ error # ""
             /\ secret_value = None
             /\ stdout = << >>

C2_Witness ==
    /\ pc = "Returned"
    /\ response = ClientError("AccessDeniedException")
    /\ secret_value = None
    /\ Len(stdout) = 1

\* C9: after write_to_file(V, path) on a path that can be created, the file's
\* entire content is exactly V, whatever the file held before: nothing added,
\* nothing transformed.
C9_WritePassThrough ==
    pc = "Returned" => fs[args_output[1]] = secret_value

\* Whether every line break of `text` outside a string is followed by four
\* spaces per open bracket, a closing bracket counting as already closed.
InString(text, i) == Cardinality({q \in 1..(i - 1) : text[q] = "\""}) % 2 = 1

Depth(text, i) ==
    Cardinality({q \in 1..(i - 1) : text[q] \in {"{", "["} /\ ~InString(text, q)})
    - Cardinality({q \in 1..(i - 1) : text[q] \in {"}", "]"} /\ ~InString(text, q)})

FirstNonSpace(text, i) == CHOOSE j \in i..Len(text) :
    text[j] # " " /\ \A q \in i..(j - 1) : text[q] = " "

IndentedByFour(text) ==
    \A i \in 1..Len(text) :
        text[i] = "\n" =>
            LET j == FirstNonSpace(text, i + 1)
            IN  j - (i + 1)
                   = 4 * (Depth(text, i) - IF text[j] \in {"}", "]"} THEN 1 ELSE 0)

\* The spec's scenario: {"k":"v"} and its display.
ScenarioValue == <<"{", "\"", "k", "\"", ":", "\"", "v", "\"", "}">>

ScenarioDisplay ==
    <<"{", "\n", " ", " ", " ", " ", "\"", "k", "\"", ":", " ", "\"", "v", "\"",
      "\n", "}">>

====
